---- MODULE Spec2Model ----
(***************************************************************************)
(* Question answering over the plant knowledge graph                      *)
(* (src/api/free_qa_system.py), the importer that fills the graph         *)
(* (src/database/neo4j_import.py) and the detail record the sidebar reads *)
(* (src/ui/web_interface.py).                                              *)
(*                                                                         *)
(* A Python str is a sequence of Unicode code points, so "兰花" is         *)
(* <<20848, 33457>>; every literal below is the source's literal, code     *)
(* point by code point, with the literal itself in the comment.            *)
(***************************************************************************)
EXTENDS Integers, Sequences, FiniteSets, TLC

VARIABLES
    graph,        \* the Neo4j store: Plant nodes by name, with their flat fields and edges
    plant_names,  \* PlantQASystem.plant_names, loaded once by __init__
    last          \* the last operation, its argument and what it returned

vars == <<graph, plant_names, last>>

(***************************************************************************)
(* Bounds.                                                                 *)
(***************************************************************************)
\* The most Plant nodes the store holds.
MaxPlants == 2

(***************************************************************************)
(* Python str operations.                                                  *)
(***************************************************************************)
\* k in q
IsIn(k, q) ==
    \E i \in 0..(Len(q) - Len(k)) : \A j \in 1..Len(k) : q[i + j] = k[j]

\* The per-character map of str.lower(): A-Z and the full-width A-Z have a
\* lower-case form 32 code points up; no CJK character, digit or punctuation
\* mark has one.
LowerChar(c) ==
    IF c \in 65..90 \/ c \in 65313..65338 THEN c + 32 ELSE c

\* question.lower()
Lower(q) == [i \in 1..Len(q) |-> LowerChar(q[i])]

\* any(k in q for k in keywords)
AnyIn(keywords, q) == \E i \in 1..Len(keywords) : IsIn(keywords[i], q)

RECURSIVE Join(_, _)
\* sep.join(items)
Join(items, sep) ==
    IF items = <<>> THEN <<>>
    ELSE IF Len(items) = 1 THEN items[1]
    ELSE items[1] \o sep \o Join(Tail(items), sep)

\* The elements of a list.
Range(s) == {s[i] : i \in 1..Len(s)}

\* Code point order on strings, the order of ORDER BY p.name.
LexLess(a, b) ==
    \E i \in 1..Len(b) :
        /\ i <= Len(a) + 1
        /\ \A j \in 1..(i - 1) : a[j] = b[j]
        /\ (i = Len(a) + 1 \/ a[i] < b[i])

RECURSIVE SortedNames(_)
\* The names of a set in ascending order.
SortedNames(S) ==
    IF S = {} THEN <<>>
    ELSE LET m == CHOOSE x \in S : \A y \in S \ {x} : LexLess(x, y)
         IN  <<m>> \o SortedNames(S \ {m})

\* str(n) for a list length: the decimal digits.
RECURSIVE Decimal(_)
Decimal(n) ==
    IF n < 10 THEN <<48 + n>> ELSE Decimal(n \div 10) \o <<48 + (n % 10)>>

\* str.strip(): the white space the data can hold is the space, the tab, the
\* line breaks and the full-width space.
IsSpace(c) == c \in {9, 10, 13, 32, 12288}

RECURSIVE LStrip(_)
LStrip(s) == IF s # <<>> /\ IsSpace(s[1]) THEN LStrip(Tail(s)) ELSE s

RECURSIVE RStrip(_)
RStrip(s) ==
    IF s # <<>> /\ IsSpace(s[Len(s)]) THEN RStrip(SubSeq(s, 1, Len(s) - 1)) ELSE s

Strip(s) == RStrip(LStrip(s))

RECURSIVE Split(_, _)
\* s.split(sep) for a one-character separator
Split(s, sep) ==
    IF \A i \in 1..Len(s) : s[i] # sep THEN <<s>>
    ELSE LET i == CHOOSE k \in 1..Len(s) :
                      s[k] = sep /\ \A j \in 1..(k - 1) : s[j] # sep
         IN  <<SubSeq(s, 1, i - 1)>> \o Split(SubSeq(s, i + 1, Len(s)), sep)

\* s.replace(a, b) for one-character a and b
Replace(s, a, b) == [i \in 1..Len(s) |-> IF s[i] = a THEN b ELSE s[i]]

RECURSIVE Distinct(_)
\* The values of a list, each once, in the order of first occurrence: MERGE of
\* an edge that exists creates nothing, and collect(DISTINCT ...).
Distinct(s) ==
    IF s = <<>> THEN <<>>
    ELSE LET r == Distinct(SubSeq(s, 1, Len(s) - 1))
         IN  IF s[Len(s)] \in Range(r) THEN r ELSE Append(r, s[Len(s)])

RECURSIVE SelectNonEmpty(_)
SelectNonEmpty(s) ==
    IF s = <<>> THEN <<>>
    ELSE IF s[1] = <<>> THEN SelectNonEmpty(Tail(s))
    ELSE <<s[1]>> \o SelectNonEmpty(Tail(s))

(***************************************************************************)
(* The literals of the source.                                             *)
(***************************************************************************)
ALIAS_MAP ==
    << <<<<33738, 33457>>, <<33738>>>>,   \* "菊花": "菊"
       <<<<26757, 33457>>, <<26757>>>>,   \* "梅花": "梅"
       <<<<20848, 33457>>, <<20848>>>>,   \* "兰花": "兰"
       <<<<31481, 23376>>, <<31481>>>>,   \* "竹子": "竹"
       <<<<33655, 33457>>, <<33655>>>>,   \* "荷花": "荷"
       <<<<33714, 33457>>, <<33655>>>>,   \* "莲花": "荷"
       <<<<26690, 33457>>, <<26690>>>>,   \* "桂花": "桂"
       <<<<29281, 20025, 33457>>, <<29281, 20025>>>>,   \* "牡丹花": "牡丹"
       <<<<26460, 40515, 33457>>, <<26460, 40515>>>>,   \* "杜鹃花": "杜鹃"
       <<<<27700, 20185, 33457>>, <<27700, 20185>>>>,   \* "水仙花": "水仙"
       <<<<33406, 33609>>, <<33406>>>>,   \* "艾草": "艾"
       <<<<33750, 33970, 21494>>, <<33750, 33970>>>>,   \* "菖蒲叶": "菖蒲"
       <<<<26494, 26641>>, <<26494>>>>,   \* "松树": "松"
       <<<<26575, 26641>>, <<26575>>>>,   \* "柏树": "柏"
       <<<<26611, 26641>>, <<26611>>>>,   \* "柳树": "柳"
       <<<<26705, 26641>>, <<26705>>>>,   \* "桑树": "桑"
       <<<<33590, 26641>>, <<33590>>>>,   \* "茶树": "茶"
       <<<<26691, 26641>>, <<26691>>>>,   \* "桃树": "桃"
       <<<<38134, 26447, 26641>>, <<38134, 26447>>>>,   \* "银杏树": "银杏"
       <<<<26791, 26704, 26641>>, <<26791, 26704>>>> >>   \* "梧桐树": "梧桐"

KW_symbol ==
    << <<35937, 24449>>,   \* "象征"
       <<23507, 24847>>,   \* "寓意"
       <<20195, 34920>>,   \* "代表"
       <<21547, 20041>>,   \* "含义"
       <<25991, 21270>> >>   \* "文化"
KW_medicinal ==
    << <<33647, 29992>>,   \* "药用"
       <<21151, 25928>>,   \* "功效"
       <<33647, 25928>>,   \* "药效"
       <<27835, 30103>>,   \* "治疗"
       <<27835, 30149>> >>   \* "治病"
KW_distribution ==
    << <<20998, 24067>>,   \* "分布"
       <<21738, 37324>>,   \* "哪里"
       <<22312, 21738>>,   \* "在哪"
       <<20135, 22320>>,   \* "产地"
       <<29983, 38271>> >>   \* "生长"
KW_folk ==
    << <<27665, 20439>>,   \* "民俗"
       <<29992, 36884>>,   \* "用途"
       <<20351, 29992>>,   \* "使用"
       <<24590, 20040, 29992>> >>   \* "怎么用"
KW_festival ==
    << <<33410, 26085>>,   \* "节日"
       <<31471, 21320>>,   \* "端午"
       <<26149, 33410>>,   \* "春节"
       <<37325, 38451>>,   \* "重阳"
       <<20013, 31179>>,   \* "中秋"
       <<28165, 26126>> >>   \* "清明"
KW_literature ==
    << <<25991, 29486>>,   \* "文献"
       <<35760, 36733>>,   \* "记载"
       <<35799, 32463>>,   \* "诗经"
       <<26970, 36766>>,   \* "楚辞"
       <<35799, 35789>> >>   \* "诗词"
KW_taxonomy ==
    << <<31185>>,   \* "科"
       <<23646>>,   \* "属"
       <<20998, 31867>> >>   \* "分类"
KW_list_all ==
    << <<25152, 26377, 26893, 29289>>,   \* "所有植物"
       <<26377, 21738, 20123, 26893, 29289>>,   \* "有哪些植物"
       <<26893, 29289, 21015, 34920>> >>   \* "植物列表"

\* "、"
T_sep == <<12289>>
\* "🌿 "
T_symbol_icon == <<127807, 32>>
\* "的文化象征：\n"
T_symbol_head == <<30340, 25991, 21270, 35937, 24449, 65306, 10>>
\* "的文化象征信息暂缺。"
T_symbol_missing == <<30340, 25991, 21270, 35937, 24449, 20449, 24687, 26242, 32570, 12290>>
\* "💊 "
T_medicinal_icon == <<128138, 32>>
\* "的药用价值：\n"
T_medicinal_head == <<30340, 33647, 29992, 20215, 20540, 65306, 10>>
\* "的药用价值信息暂缺。"
T_medicinal_missing == <<30340, 33647, 29992, 20215, 20540, 20449, 24687, 26242, 32570, 12290>>
\* "无药用记载"
T_no_medicinal == <<26080, 33647, 29992, 35760, 36733>>
\* "🗺️ "
T_distribution_icon == <<128506, 65039, 32>>
\* "的分布区域：\n"
T_distribution_head == <<30340, 20998, 24067, 21306, 22495, 65306, 10>>
\* "的分布信息暂缺。"
T_distribution_missing == <<30340, 20998, 24067, 20449, 24687, 26242, 32570, 12290>>
\* "🏮 "
T_folk_icon == <<127982, 32>>
\* "的民俗用途：\n"
T_folk_head == <<30340, 27665, 20439, 29992, 36884, 65306, 10>>
\* "的民俗用途信息暂缺。"
T_folk_missing == <<30340, 27665, 20439, 29992, 36884, 20449, 24687, 26242, 32570, 12290>>
\* "🎉 "
T_festival_icon == <<127881, 32>>
\* "相关的节日：\n"
T_festival_head == <<30456, 20851, 30340, 33410, 26085, 65306, 10>>
\* "的节日信息暂缺。"
T_festival_missing == <<30340, 33410, 26085, 20449, 24687, 26242, 32570, 12290>>
\* "📖 "
T_literature_icon == <<128214, 32>>
\* "的文献记载：\n"
T_literature_head == <<30340, 25991, 29486, 35760, 36733, 65306, 10>>
\* "的文献出处：\n"
T_literature_flat_head == <<30340, 25991, 29486, 20986, 22788, 65306, 10>>
\* "的文献信息暂缺。"
T_literature_missing == <<30340, 25991, 29486, 20449, 24687, 26242, 32570, 12290>>
\* "🌱 "
T_taxonomy_icon == <<127793, 32>>
\* "（"
T_open == <<65288>>
\* "）\n"
T_close_nl == <<65289, 10>>
\* "🏷️ 科："
T_family == <<127991, 65039, 32, 31185, 65306>>
\* "  属："
T_genus == <<32, 32, 23646, 65306>>
\* "的科属信息暂缺。"
T_taxonomy_missing == <<30340, 31185, 23646, 20449, 24687, 26242, 32570, 12290>>
\* "\n"
T_nl == <<10>>
\* "🗺️ 分布："
T_basic_dist == <<128506, 65039, 32, 20998, 24067, 65306>>
\* "✨ 文化象征："
T_basic_symbol == <<10024, 32, 25991, 21270, 35937, 24449, 65306>>
\* " 的信息暂缺。"
T_basic_missing == <<32, 30340, 20449, 24687, 26242, 32570, 12290>>
\* "❌ 暂未收录该种植物（"
T_uncatalogued == <<10060, 32, 26242, 26410, 25910, 24405, 35813, 31181, 26893, 29289, 65288>>
\* "）"
T_close == <<65289>>
\* "📚 知识库中共有 "
T_list_count == <<128218, 32, 30693, 35782, 24211, 20013, 20849, 26377, 32>>
\* " 种植物：\n"
T_list_head == <<32, 31181, 26893, 29289, 65306, 10>>
\* "端午"
K_duanwu == <<31471, 21320>>
\* "春节"
K_chunjie == <<26149, 33410>>
\* "重阳"
K_chongyang == <<37325, 38451>>
\* "中秋"
K_zhongqiu == <<20013, 31179>>
\* "清明"
K_qingming == <<28165, 26126>>
\* "楚辞"
K_chuci == <<26970, 36766>>
\* "诗经"
K_shijing == <<35799, 32463>>
\* "🎋 端午节相关植物："
T_duanwu_head == <<127883, 32, 31471, 21320, 33410, 30456, 20851, 26893, 29289, 65306>>
\* "🎋 端午节相关植物：艾、菖蒲、蒜"
T_duanwu_curated == <<127883, 32, 31471, 21320, 33410, 30456, 20851, 26893, 29289, 65306, 33406, 12289, 33750, 33970, 12289, 33948>>
\* "🧧 春节相关植物：橘、桃、水仙"
T_chunjie_curated == <<129511, 32, 26149, 33410, 30456, 20851, 26893, 29289, 65306, 27224, 12289, 26691, 12289, 27700, 20185>>
\* "🏔️ 重阳节相关植物：菊、茱萸"
T_chongyang_curated == <<127956, 65039, 32, 37325, 38451, 33410, 30456, 20851, 26893, 29289, 65306, 33738, 12289, 33585, 33848>>
\* "🌕 中秋节相关植物：桂"
T_zhongqiu_curated == <<127765, 32, 20013, 31179, 33410, 30456, 20851, 26893, 29289, 65306, 26690>>
\* "🌧️ 清明节相关植物：柳、杜鹃、柏"
T_qingming_curated == <<127783, 65039, 32, 28165, 26126, 33410, 30456, 20851, 26893, 29289, 65306, 26611, 12289, 26460, 40515, 12289, 26575>>
\* "📜 《楚辞》《诗经》中记载的植物："
T_corpus_head == <<128220, 32, 12298, 26970, 36766, 12299, 12298, 35799, 32463, 12299, 20013, 35760, 36733, 30340, 26893, 29289, 65306>>
\* "……"
T_ellipsis == <<8230, 8230>>
\* "❓ 请明确指定植物名称（如：兰有什么文化象征？）"
T_default_prompt == <<10067, 32, 35831, 26126, 30830, 25351, 23450, 26893, 29289, 21517, 31216, 65288, 22914, 65306, 20848, 26377, 20160, 20040, 25991, 21270, 35937, 24449, 65311, 65289>>
\* "暂无分布信息"
T_no_distribution == <<26242, 26080, 20998, 24067, 20449, 24687>>
\* "暂无民俗用途"
T_no_folk_use == <<26242, 26080, 27665, 20439, 29992, 36884>>
\* "暂无生态意义"
T_no_ecological == <<26242, 26080, 29983, 24577, 24847, 20041>>
\* "暂无文化象征"
T_no_cultural_symbol == <<26242, 26080, 25991, 21270, 35937, 24449>>
\* "None"
T_None == <<78, 111, 110, 101>>

\* "；"
SEMI == <<65307>>
\* ","
COMMA == <<44>>

(***************************************************************************)
(* The graph store.  A property value is a string or null; a Plant node    *)
(* carries the flat fields the importer writes and, per edge type, the     *)
(* values of the nodes its edges lead to, in the store's order.  Plant     *)
(* names are unique (constraint plant_name_unique), so the store is a      *)
(* function from the names of its Plant nodes.                             *)
(***************************************************************************)
Null == [null |-> TRUE, s |-> <<>>]
Str(s) == [null |-> FALSE, s |-> s]

\* Python truth of a property value: None and '' are false.
Truthy(v) == ~v.null /\ v.s # <<>>

\* f"{value}": None prints as "None".
Format(v) == IF v.null THEN T_None ELSE v.s

\* MATCH (p:Plant {name: $name}) RETURN ... ; result.single() is None when
\* no node matches.
HasRecord(g, name) == name \in DOMAIN g

\* MATCH (p:Plant {name: $name})-[edge]->(x) RETURN collect(x.value): one row
\* always, with the empty list when nothing matches.
Collect(g, name, edge) == IF name \in DOMAIN g THEN g[name][edge] ELSE <<>>

\* MATCH (p:Plant) RETURN p.name as name ORDER BY p.name
_get_all_plants(g) == SortedNames(DOMAIN g)

(***************************************************************************)
(* PlantQASystem: the intent of a question.                                *)
(***************************************************************************)
\* The chain with the medicinal group tested before the symbol group.
_identify_question_type_medicinal_first(question) ==
    LET q == Lower(question)
    IN  IF AnyIn(KW_medicinal, q) THEN "medicinal"
        ELSE IF AnyIn(KW_symbol, q) THEN "symbol"
        ELSE IF AnyIn(KW_distribution, q) THEN "distribution"
        ELSE IF AnyIn(KW_folk, q) THEN "folk"
        ELSE IF AnyIn(KW_festival, q) THEN "festival"
        ELSE IF AnyIn(KW_literature, q) THEN "literature"
        ELSE IF AnyIn(KW_taxonomy, q) THEN "taxonomy"
        ELSE "basic"

_identify_question_type(question) ==
    LET q == Lower(question)
    IN  IF AnyIn(KW_symbol, q) THEN "symbol"
        ELSE IF AnyIn(KW_medicinal, q) THEN "medicinal"
        ELSE IF AnyIn(KW_distribution, q) THEN "distribution"
        ELSE IF AnyIn(KW_folk, q) THEN "folk"
        ELSE IF AnyIn(KW_festival, q) THEN "festival"
        ELSE IF AnyIn(KW_literature, q) THEN "literature"
        ELSE IF AnyIn(KW_taxonomy, q) THEN "taxonomy"
        ELSE "basic"

(***************************************************************************)
(* PlantQASystem: the queries of one plant, each returning the answer.     *)
(***************************************************************************)
_query_symbol(g, plant) ==
    LET symbols == Collect(g, plant, "symbols")
    IN  IF symbols # <<>>
        THEN T_symbol_icon \o plant \o T_symbol_head \o Join(symbols, T_sep)
        ELSE IF HasRecord(g, plant) /\ Truthy(g[plant].cultural_symbol)
        THEN T_symbol_icon \o plant \o T_symbol_head \o g[plant].cultural_symbol.s
        ELSE T_symbol_icon \o plant \o T_symbol_missing

\* _query_medicinal returning the flat field whenever it has a value.
_query_medicinal_any_value(g, plant) ==
    LET effects == Collect(g, plant, "effects")
    IN  IF effects # <<>>
        THEN T_medicinal_icon \o plant \o T_medicinal_head \o Join(effects, T_sep)
        ELSE IF /\ HasRecord(g, plant)
                /\ Truthy(g[plant].medicinal_value)
        THEN T_medicinal_icon \o plant \o T_medicinal_head \o g[plant].medicinal_value.s
        ELSE T_medicinal_icon \o plant \o T_medicinal_missing

_query_medicinal(g, plant) ==
    LET effects == Collect(g, plant, "effects")
    IN  IF effects # <<>>
        THEN T_medicinal_icon \o plant \o T_medicinal_head \o Join(effects, T_sep)
        ELSE IF /\ HasRecord(g, plant)
                /\ Truthy(g[plant].medicinal_value)
                /\ g[plant].medicinal_value.s # T_no_medicinal
        THEN T_medicinal_icon \o plant \o T_medicinal_head \o g[plant].medicinal_value.s
        ELSE T_medicinal_icon \o plant \o T_medicinal_missing

_query_distribution(g, plant) ==
    IF HasRecord(g, plant) /\ Truthy(g[plant].distribution)
    THEN T_distribution_icon \o plant \o T_distribution_head \o g[plant].distribution.s
    ELSE T_distribution_icon \o plant \o T_distribution_missing

_query_folk(g, plant) ==
    IF HasRecord(g, plant) /\ Truthy(g[plant].folk_use)
    THEN T_folk_icon \o plant \o T_folk_head \o g[plant].folk_use.s
    ELSE T_folk_icon \o plant \o T_folk_missing

_query_festival(g, plant) ==
    LET festivals == Collect(g, plant, "festivals")
    IN  IF festivals # <<>>
        THEN T_festival_icon \o plant \o T_festival_head \o Join(festivals, T_sep)
        ELSE IF HasRecord(g, plant) /\ Truthy(g[plant].festival)
        THEN T_festival_icon \o plant \o T_festival_head \o g[plant].festival.s
        ELSE T_festival_icon \o plant \o T_festival_missing

_query_literature(g, plant) ==
    LET literatures == Collect(g, plant, "literatures")
    IN  IF literatures # <<>>
        THEN T_literature_icon \o plant \o T_literature_head
                 \o Join(literatures, T_sep)
        ELSE IF HasRecord(g, plant) /\ Truthy(g[plant].literature_source)
        THEN T_literature_icon \o plant \o T_literature_flat_head
                 \o g[plant].literature_source.s
        ELSE T_literature_icon \o plant \o T_literature_missing

_query_taxonomy(g, plant) ==
    IF HasRecord(g, plant)
    THEN T_taxonomy_icon \o plant \o T_open \o Format(g[plant].latin_name)
             \o T_close_nl \o T_family \o Format(g[plant].family)
             \o T_genus \o Format(g[plant].genus)
    ELSE T_taxonomy_icon \o plant \o T_taxonomy_missing

_query_basic(g, plant) ==
    IF HasRecord(g, plant)
    THEN T_symbol_icon \o plant \o T_open \o Format(g[plant].latin_name)
             \o T_close_nl
             \o T_family \o Format(g[plant].family)
             \o T_genus \o Format(g[plant].genus) \o T_nl
             \o (IF Truthy(g[plant].distribution)
                 THEN T_basic_dist \o g[plant].distribution.s \o T_nl ELSE <<>>)
             \o (IF Truthy(g[plant].cultural_symbol)
                 THEN T_basic_symbol \o g[plant].cultural_symbol.s ELSE <<>>)
    ELSE T_symbol_icon \o plant \o T_basic_missing

\* The if/elif chain of _answer_for_plant.
QueryFor(g, plant, q_type) ==
    CASE q_type = "symbol" -> _query_symbol(g, plant)
      [] q_type = "medicinal" -> _query_medicinal(g, plant)
      [] q_type = "distribution" -> _query_distribution(g, plant)
      [] q_type = "folk" -> _query_folk(g, plant)
      [] q_type = "festival" -> _query_festival(g, plant)
      [] q_type = "literature" -> _query_literature(g, plant)
      [] q_type = "taxonomy" -> _query_taxonomy(g, plant)
      [] OTHER -> _query_basic(g, plant)

\* The answer, with the intent it was given for.
_answer_for_plant(g, plant, question) ==
    LET q_type == _identify_question_type(question)
    IN  [ret |-> QueryFor(g, plant, q_type), q_type |-> q_type]

(***************************************************************************)
(* PlantQASystem: questions that name no plant.                            *)
(***************************************************************************)
\* One row per matching edge: the rows of
\* MATCH (p:Plant)-[edge]->(x) WHERE x.name CONTAINS k1 OR x.name CONTAINS k2
\* RETURN p.name, the Plant nodes taken in the order scan.  The query has no
\* ORDER BY, so the order of the nodes is the store's.
RECURSIVE MatchRows(_, _, _, _, _)
MatchRows(g, edge, k1, k2, scan) ==
    IF scan = <<>> THEN <<>>
    ELSE LET p == scan[1]
             hits == {i \in 1..Len(g[p][edge]) :
                         IsIn(k1, g[p][edge][i]) \/ IsIn(k2, g[p][edge][i])}
         IN  [i \in 1..Cardinality(hits) |-> p]
                 \o MatchRows(g, edge, k1, k2, Tail(scan))

\* plants[:10]
FirstTen(plants) == SubSeq(plants, 1, IF Len(plants) < 10 THEN Len(plants) ELSE 10)

\* The general handler with the listing joined from the second name on.
_handle_general_question_skips_first(g, names, question, scan) ==
    LET q == Lower(question)
    IN  IF AnyIn(KW_list_all, q)
        THEN T_list_count \o Decimal(Len(names)) \o T_list_head \o Join(IF names = <<>> THEN names ELSE Tail(names), T_sep)
        ELSE IF IsIn(K_duanwu, q)
        THEN LET plants == MatchRows(g, "festivals", K_duanwu, K_duanwu, scan)
             IN  IF plants # <<>>
                 THEN T_duanwu_head \o Join(plants, T_sep)
                 ELSE T_duanwu_curated
        ELSE IF IsIn(K_chunjie, q) THEN T_chunjie_curated
        ELSE IF IsIn(K_chongyang, q) THEN T_chongyang_curated
        ELSE IF IsIn(K_zhongqiu, q) THEN T_zhongqiu_curated
        ELSE IF IsIn(K_qingming, q) THEN T_qingming_curated
        ELSE IF IsIn(K_chuci, q) \/ IsIn(K_shijing, q)
        THEN LET plants == MatchRows(g, "literatures", K_chuci, K_shijing, scan)
             IN  IF plants # <<>>
                 THEN T_corpus_head \o Join(FirstTen(plants), T_sep) \o T_ellipsis
                 ELSE T_default_prompt
        ELSE T_default_prompt

\* The general handler without the final prompt.
_handle_general_question_no_prompt(g, names, question, scan) ==
    LET q == Lower(question)
    IN  IF AnyIn(KW_list_all, q)
        THEN T_list_count \o Decimal(Len(names)) \o T_list_head \o Join(names, T_sep)
        ELSE IF IsIn(K_duanwu, q)
        THEN LET plants == MatchRows(g, "festivals", K_duanwu, K_duanwu, scan)
             IN  IF plants # <<>>
                 THEN T_duanwu_head \o Join(plants, T_sep)
                 ELSE T_duanwu_curated
        ELSE IF IsIn(K_chunjie, q) THEN T_chunjie_curated
        ELSE IF IsIn(K_chongyang, q) THEN T_chongyang_curated
        ELSE IF IsIn(K_zhongqiu, q) THEN T_zhongqiu_curated
        ELSE IF IsIn(K_qingming, q) THEN T_qingming_curated
        ELSE IF IsIn(K_chuci, q) \/ IsIn(K_shijing, q)
        THEN LET plants == MatchRows(g, "literatures", K_chuci, K_shijing, scan)
             IN  IF plants # <<>>
                 THEN T_corpus_head \o Join(FirstTen(plants), T_sep) \o T_ellipsis
                 ELSE T_default_prompt
        ELSE <<>>

_handle_general_question(g, names, question, scan) ==
    LET q == Lower(question)
    IN  IF AnyIn(KW_list_all, q)
        THEN T_list_count \o Decimal(Len(names)) \o T_list_head \o Join(names, T_sep)
        ELSE IF IsIn(K_duanwu, q)
        THEN LET plants == MatchRows(g, "festivals", K_duanwu, K_duanwu, scan)
             IN  IF plants # <<>>
                 THEN T_duanwu_head \o Join(plants, T_sep)
                 ELSE T_duanwu_curated
        ELSE IF IsIn(K_chunjie, q) THEN T_chunjie_curated
        ELSE IF IsIn(K_chongyang, q) THEN T_chongyang_curated
        ELSE IF IsIn(K_zhongqiu, q) THEN T_zhongqiu_curated
        ELSE IF IsIn(K_qingming, q) THEN T_qingming_curated
        ELSE IF IsIn(K_chuci, q) \/ IsIn(K_shijing, q)
        THEN LET plants == MatchRows(g, "literatures", K_chuci, K_shijing, scan)
             IN  IF plants # <<>>
                 THEN T_corpus_head \o Join(FirstTen(plants), T_sep) \o T_ellipsis
                 ELSE T_default_prompt
        ELSE T_default_prompt

(***************************************************************************)
(* PlantQASystem.answer.                                                   *)
(***************************************************************************)
\* Step 1 taking a name only when it is the whole question.
FirstNameFrom_whole_question(names, question, i) ==
    IF \E j \in i..Len(names) : names[j] = question
    THEN CHOOSE j \in i..Len(names) :
             names[j] = question /\ \A k \in i..(j - 1) : names[k] # question
    ELSE 0

RECURSIVE FirstNameFrom(_, _, _)
\* for plant in self.plant_names: if plant in question: the index of the first
\* such plant from i on; 0 when there is none.
FirstNameFrom(names, question, i) ==
    IF i > Len(names) THEN 0
    ELSE IF IsIn(names[i], question) THEN i
    ELSE FirstNameFrom(names, question, i + 1)

FirstName(names, question) == FirstNameFrom(names, question, 1)

RECURSIVE FirstAliasFrom(_, _)
\* for alias, real_name in self.ALIAS_MAP.items(): if alias in question
FirstAliasFrom(question, i) ==
    IF i > Len(ALIAS_MAP) THEN 0
    ELSE IF IsIn(ALIAS_MAP[i][1], question) THEN i
    ELSE FirstAliasFrom(question, i + 1)

FirstAlias(question) == FirstAliasFrom(question, 1)

RECURSIVE FirstWordFrom(_, _, _)
\* for word in words: if word in self.plant_names
FirstWordFrom(names, words, i) ==
    IF i > Len(words) THEN 0
    ELSE IF words[i] \in Range(names) THEN i
    ELSE FirstWordFrom(names, words, i + 1)

FirstWord(names, words) == FirstWordFrom(names, words, 1)

RECURSIVE lcut(_)
\* jieba.lcut(question): the question cut into words.  Which cut jieba makes
\* depends on its dictionary; every cut is a list of non-empty pieces that
\* concatenate to the question, and the model allows each of them.
lcut(question) ==
    IF question = <<>> THEN {<<>>}
    ELSE UNION {{<<SubSeq(question, 1, i)>> \o rest :
                     rest \in lcut(SubSeq(question, i + 1, Len(question)))} :
                i \in 1..Len(question)}

\* What answer returns, with the step that decided it, the plant handed to
\* _answer_for_plant (if any) and the intent it was answered for.
Returned(ret, step, plant, q_type) ==
    [ret |-> ret, step |-> step, plant |-> plant, q_type |-> q_type]

Dispatched(g, step, plant, question) ==
    LET r == _answer_for_plant(g, plant, question)
    IN  Returned(r.ret, step, plant, r.q_type)

\* Steps 1 and 2 decide the question: a plant or an alias is contained in it.
NamedDirectly(names, question) ==
    FirstName(names, question) # 0 \/ FirstAlias(question) # 0

\* The word the loop of step 3 stops at; <<>> when it runs to its end.
WordFound(names, words) ==
    IF FirstWord(names, words) = 0 THEN <<>> ELSE words[FirstWord(names, words)]

\* One cut of the question for each word step 3 can stop at: cuts that stop
\* the loop at the same word are answered alike.
Cuts(names, question) ==
    LET cuts == lcut(question)
    IN  {CHOOSE words \in cuts : WordFound(names, words) = w :
             w \in {WordFound(names, words) : words \in cuts}}

\* _handle_general_question runs a graph query only for these questions.
AsksGraph(question) ==
    LET q == Lower(question)
    IN  IsIn(K_duanwu, q) \/ IsIn(K_chuci, q) \/ IsIn(K_shijing, q)

answer(g, names, question, words, scan) ==
    LET d == FirstName(names, question)
        a == FirstAlias(question)
        w == FirstWord(names, words)
    IN  IF d # 0 THEN Dispatched(g, "direct", names[d], question)
        ELSE IF a # 0
        THEN IF ALIAS_MAP[a][2] \in Range(names)
             THEN Dispatched(g, "alias", ALIAS_MAP[a][2], question)
             ELSE Returned(T_uncatalogued \o ALIAS_MAP[a][1] \o T_close,
                           "uncatalogued", <<>>, "none")
        ELSE IF w # 0 THEN Dispatched(g, "word", words[w], question)
        ELSE Returned(_handle_general_question(g, names, question, scan),
                      "general", <<>>, "none")

\* answer with step 3 (lines 69-73) left out: steps 1, 2 and 4 alone.
answer_without_fallback(g, names, question, scan) ==
    LET d == FirstName(names, question)
        a == FirstAlias(question)
    IN  IF d # 0 THEN Dispatched(g, "direct", names[d], question)
        ELSE IF a # 0
        THEN IF ALIAS_MAP[a][2] \in Range(names)
             THEN Dispatched(g, "alias", ALIAS_MAP[a][2], question)
             ELSE Returned(T_uncatalogued \o ALIAS_MAP[a][1] \o T_close,
                           "uncatalogued", <<>>, "none")
        ELSE Returned(_handle_general_question(g, names, question, scan),
                      "general", <<>>, "none")

(***************************************************************************)
(* PlantQASystem.get_plant_detail.                                         *)
(***************************************************************************)
\* value or placeholder
OrElse(v, placeholder) == IF Truthy(v) THEN v ELSE Str(placeholder)

NoDetail ==
    [found |-> FALSE, name |-> <<>>, latin |-> Null, family |-> Null,
     genus |-> Null, distribution |-> Null, folk_use |-> Null,
     ecological |-> Null, cultural_symbol |-> Null, symbols |-> <<>>,
     medicinal |-> <<>>, literature |-> <<>>, festivals |-> <<>>]

get_plant_detail(g, plant_name) ==
    IF HasRecord(g, plant_name)
    THEN [found |-> TRUE,
          name |-> plant_name,
          latin |-> g[plant_name].latin_name,
          family |-> g[plant_name].family,
          genus |-> g[plant_name].genus,
          distribution |-> OrElse(g[plant_name].distribution, T_no_distribution),
          folk_use |-> OrElse(g[plant_name].folk_use, T_no_folk_use),
          ecological |-> OrElse(g[plant_name].ecological_meaning, T_no_ecological),
          cultural_symbol |->
              OrElse(g[plant_name].cultural_symbol, T_no_cultural_symbol),
          symbols |-> Distinct(g[plant_name].symbols),
          medicinal |-> Distinct(g[plant_name].effects),
          literature |-> Distinct(g[plant_name].literatures),
          festivals |-> Distinct(g[plant_name].festivals)]
    ELSE NoDetail

(***************************************************************************)
(* Neo4jDataImporter.                                                      *)
(***************************************************************************)
\* The values a delimited cell holds: split, strip, drop the empty ones, and
\* MERGE each edge once.
CellValues(parts) ==
    Distinct(SelectNonEmpty([i \in 1..Len(parts) |-> Strip(parts[i])]))

\* The node and edges import_data creates for one spreadsheet row (fillna('')
\* has made every cell a string).
ImportedNode(row) ==
    [latin_name |-> Str(row.latin_name),
     family |-> Str(row.family),
     genus |-> Str(row.genus),
     distribution |-> Str(row.distribution),
     folk_use |-> Str(row.folk_use),
     ecological_meaning |-> Str(row.ecological_meaning),
     cultural_symbol |-> Str(row.cultural_symbol),
     medicinal_value |-> Str(row.medicinal_value),
     literature_source |-> Str(row.literature_source),
     festival |-> Str(row.festival),
     symbols |->
         IF row.cultural_symbol # <<>>
         THEN CellValues(Split(row.cultural_symbol, SEMI[1])) ELSE <<>>,
     effects |->
         IF row.medicinal_value # <<>> /\ row.medicinal_value # T_no_medicinal
         THEN CellValues(Split(Replace(row.medicinal_value, SEMI[1], COMMA[1]),
                               COMMA[1]))
         ELSE <<>>,
     literatures |->
         IF row.literature_source # <<>> THEN <<row.literature_source>> ELSE <<>>,
     festivals |->
         IF row.festival # <<>>
         THEN CellValues(Split(row.festival, SEMI[1])) ELSE <<>>]

\* The store after one row of import_data: CREATE fails on a name the store
\* holds (plant_name_unique), the except clause logs it and the row is skipped.
import_row(g, row) ==
    IF row.name \in DOMAIN g THEN g
    ELSE [n \in DOMAIN g \cup {row.name} |->
             IF n = row.name THEN ImportedNode(row) ELSE g[n]]

\* MATCH (n) DETACH DELETE n
EmptyGraph == [n \in {} |-> Null]

(***************************************************************************)
(* The data the model runs on: plant names, spreadsheet rows, node         *)
(* contents and questions.                                                 *)
(***************************************************************************)
\* "兰"
N_lan == <<20848>>
\* "玉兰"
N_yulan == <<29577, 20848>>
\* "荷"
N_he == <<33655>>
\* "莲"
N_lian == <<33714>>
\* "艾"
N_ai == <<33406>>
\* "桃"
N_tao == <<26691>>
\* "玫瑰", neither a plant of the store nor an alias
N_meigui == <<29611, 29808>>
\* "兰花"
A_lanhua == <<20848, 33457>>
\* "荷花"
A_hehua == <<33655, 33457>>
\* "莲花"
A_lianhua == <<33714, 33457>>
\* "菊花"
A_juhua == <<33738, 33457>>
\* "桃树"
A_taoshu == <<26691, 26641>>
\* "楚辞"
D_chuci == <<26970, 36766>>
\* "Cymbidium"
D_latin == <<67, 121, 109, 98, 105, 100, 105, 117, 109>>
\* "兰科"
D_lanke == <<20848, 31185>>
\* "兰属"
D_lanshu == <<20848, 23646>>
\* "湖北"
D_hubei == <<28246, 21271>>
\* "佩戴"
D_peidai == <<20329, 25140>>
\* "观赏"
D_guanshang == <<35266, 36175>>
\* "高洁；君子"
D_sym_cell == <<39640, 27905, 65307, 21531, 23376>>
\* "清热,止咳"
D_med_cell == <<28165, 28909, 44, 27490, 21683>>
\* "端午节；春节"
D_fest_cell == <<31471, 21320, 33410, 65307, 26149, 33410>>
\* "A"
Q_A == <<65>>

\* A spreadsheet row with every cell filled.
FullRow(name) ==
    [name |-> name, latin_name |-> D_latin, family |-> D_lanke,
     genus |-> D_lanshu, distribution |-> D_hubei, folk_use |-> D_peidai,
     ecological_meaning |-> D_guanshang, cultural_symbol |-> D_sym_cell,
     medicinal_value |-> D_med_cell, literature_source |-> D_chuci,
     festival |-> D_fest_cell]

\* A row with only the name filled: fillna('') makes the other cells ''.
EmptyRow(name) ==
    [name |-> name, latin_name |-> <<>>, family |-> <<>>, genus |-> <<>>,
     distribution |-> <<>>, folk_use |-> <<>>, ecological_meaning |-> <<>>,
     cultural_symbol |-> <<>>, medicinal_value |-> <<>>,
     literature_source |-> <<>>, festival |-> <<>>]

FullNode == ImportedNode(FullRow(<<>>))
EmptyNode == ImportedNode(EmptyRow(<<>>))

\* A node with every flat field set to v.
WithFlat(node, v) ==
    [node EXCEPT !.latin_name = v, !.family = v, !.genus = v,
                 !.distribution = v, !.folk_use = v, !.ecological_meaning = v,
                 !.cultural_symbol = v, !.medicinal_value = v,
                 !.literature_source = v, !.festival = v]

\* A node without edges.
WithoutEdges(node) ==
    [node EXCEPT !.symbols = <<>>, !.effects = <<>>, !.literatures = <<>>,
                 !.festivals = <<>>]

\* A node whose properties were never set.
NullNode == WithFlat(EmptyNode, Null)

\* The stores of at most MaxPlants Plant nodes with names and contents from
\* the given sets.
Graphs(names, nodes) ==
    UNION {[S -> nodes] : S \in {T \in SUBSET names : Cardinality(T) <= MaxPlants}}

RECURSIVE ScanOrders(_)
\* The orders in which a scan can meet the nodes of a set.
ScanOrders(S) ==
    IF S = {} THEN {<<>>}
    ELSE UNION {{<<x>> \o rest : rest \in ScanOrders(S \ {x})} : x \in S}

\* subject followed by tail
Questions(subjects, tails) == {s \o t : s \in subjects, t \in tails}

(***************************************************************************)
(* The state machine.                                                      *)
(***************************************************************************)
Op(op, arg) ==
    [op |-> op, arg |-> arg, ret |-> <<>>, step |-> "none", plant |-> <<>>,
     q_type |-> "none", detail |-> NoDetail, repeat |-> FALSE]

\* After PlantQASystem.__init__ on a store g.
InitOn(graphs) ==
    /\ graph \in graphs
    /\ plant_names = _get_all_plants(graph)
    /\ last = Op("init", <<>>)

\* The page's handling of a question (web_interface.py): qa.answer(question)
\* is called once the answer to the question before it has been shown.
Answer(question) ==
    /\ last.op # "answer"
    /\ LET named == NamedDirectly(plant_names, question)
       IN  \E words \in (IF named THEN {<<>>} ELSE Cuts(plant_names, question)) :
           \E scan \in (IF named \/ ~AsksGraph(question)
                        THEN {<<>>} ELSE ScanOrders(DOMAIN graph)) :
               LET r == answer(graph, plant_names, question, words, scan)
               IN  last' = [Op("answer", question) EXCEPT
                                !.ret = r.ret, !.step = r.step,
                                !.plant = r.plant, !.q_type = r.q_type]
    /\ UNCHANGED <<graph, plant_names>>

\* The page shows the answer and files it in the history.
Show ==
    /\ last.op = "answer"
    /\ last' = Op("shown", <<>>)
    /\ UNCHANGED <<graph, plant_names>>

\* get_plant_detail writing the placeholders it substitutes back to the node.
GetPlantDetail_repairs(plant_name) ==
    /\ last' = [Op("detail", plant_name) EXCEPT
                    !.detail = get_plant_detail(graph, plant_name),
                    !.repeat = (last.op = "detail" /\ last.arg = plant_name)]
    /\ graph' = IF HasRecord(graph, plant_name)
                THEN [graph EXCEPT
                          ![plant_name].distribution =
                              OrElse(graph[plant_name].distribution,
                                     T_no_distribution)]
                ELSE graph
    /\ UNCHANGED plant_names

\* qa.get_plant_detail(plant_name)
GetPlantDetail(plant_name) ==
    /\ last' = [Op("detail", plant_name) EXCEPT
                    !.detail = get_plant_detail(graph, plant_name),
                    !.repeat = (last.op = "detail" /\ last.arg = plant_name)]
    /\ UNCHANGED <<graph, plant_names>>

\* One row of Neo4jDataImporter.import_data, run while the QA system is up.
ImportRow(row) ==
    /\ row.name \in DOMAIN graph \/ Cardinality(DOMAIN graph) < MaxPlants
    /\ graph' = import_row(graph, row)
    /\ last' = Op("import", <<>>)
    /\ UNCHANGED plant_names

\* Neo4jDataImporter.clear_database
ClearDatabase ==
    /\ graph' = EmptyGraph
    /\ last' = Op("clear", <<>>)
    /\ UNCHANGED plant_names

NextOn(questions, names, rows) ==
    \/ \E q \in questions : Answer(q)
    \/ Show
    \/ \E n \in names : GetPlantDetail(n)
    \/ \E row \in rows : ImportRow(row)
    \/ ClearDatabase

(***************************************************************************)
(* The whole system on a small store: general questions, details, the      *)
(* importer.                                                               *)
(***************************************************************************)
MainNames == {N_ai, N_tao, N_lan}
MainNodes == {FullNode, EmptyNode, NullNode}
MainQuestions ==
    Questions({<<>>, N_ai, N_meigui, A_taoshu, Q_A},
              {<<>>, KW_symbol[1], KW_list_all[1], KW_list_all[2], KW_list_all[3],
               K_duanwu, K_chunjie, K_chongyang, K_zhongqiu, K_qingming,
               K_chuci, K_shijing})

Init == InitOn(Graphs(MainNames, MainNodes))
Next == NextOn(MainQuestions, MainNames \cup {N_meigui}, {FullRow(N_ai), EmptyRow(N_tao)})
Spec == Init /\ [][Next]_vars

(***************************************************************************)
(* Entity resolution: stores whose names contain one another or are        *)
(* contained in an alias.                                                  *)
(***************************************************************************)
ResolveNames == {N_lan, N_yulan, N_he, N_lian}
ResolveQuestions ==
    Questions({<<>>, N_lan, N_yulan, N_he, N_lian, N_meigui,
               A_lanhua, A_hehua, A_lianhua, A_juhua},
              {<<>>, KW_symbol[1]})

InitResolve == InitOn(Graphs(ResolveNames, {EmptyNode}))
NextResolve == NextOn(ResolveQuestions, ResolveNames, {EmptyRow(N_lian)})
SpecResolve == InitResolve /\ [][NextResolve]_vars

\* The question was answered by _answer_for_plant.
WasDispatched == last.op = "answer" /\ last.step \in {"direct", "alias", "word"}

\* C1: for every name n of the list loaded at startup, answer(n) is handed to
\* _answer_for_plant with plant = n, whatever other names the list holds.
C1_NameResolvesToItself ==
    (last.op = "answer" /\ last.arg \in Range(plant_names))
        => (WasDispatched /\ last.plant = last.arg)

\* C2: for every alias a whose target c is in the loaded list, answer(a) is
\* handed to _answer_for_plant with plant = c, whatever other names the list
\* holds.
C2_AliasResolvesToTarget ==
    \A i \in 1..Len(ALIAS_MAP) :
        (/\ last.op = "answer"
         /\ last.arg = ALIAS_MAP[i][1]
         /\ ALIAS_MAP[i][2] \in Range(plant_names))
            => (WasDispatched /\ last.plant = ALIAS_MAP[i][2])

\* C3: for every alias a whose target is not in the loaded list, answer(a)
\* is the "not catalogued" message naming a: no plant is resolved and the
\* general handler is not reached.
C3_UnknownTargetIsUncatalogued ==
    \A i \in 1..Len(ALIAS_MAP) :
        (/\ last.op = "answer"
         /\ last.arg = ALIAS_MAP[i][1]
         /\ ALIAS_MAP[i][2] \notin Range(plant_names))
            => (/\ last.step = "uncatalogued"
                /\ last.ret = T_uncatalogued \o ALIAS_MAP[i][1] \o T_close)

(***************************************************************************)
(* The intent classifier as a function of the question: the question is    *)
(* drawn at the start and classified once.                                 *)
(***************************************************************************)
\* The keyword groups in the order the if/elif chain names them.
KeywordGroups ==
    <<KW_symbol, KW_medicinal, KW_distribution, KW_folk, KW_festival,
      KW_literature, KW_taxonomy>>
IntentOf ==
    <<"symbol", "medicinal", "distribution", "folk", "festival", "literature",
      "taxonomy">>
Intents == Range(IntentOf) \cup {"basic"}

\* Every keyword of every group.
AllKeywords == UNION {Range(KeywordGroups[g]) : g \in 1..Len(KeywordGroups)}

\* Two pieces, each a keyword, a plant, a capital letter or nothing.
ClassifyQuestions ==
    LET pieces == AllKeywords \cup {<<>>, N_lan, Q_A}
    IN  Questions(pieces, pieces)

InitClassify ==
    /\ graph = EmptyGraph
    /\ plant_names = <<>>
    /\ last \in {Op("pending", q) : q \in ClassifyQuestions}

\* self._identify_question_type(question)
Classify ==
    /\ last.op = "pending"
    /\ last' = [Op("classify", last.arg) EXCEPT
                    !.q_type = _identify_question_type(last.arg)]
    /\ UNCHANGED <<graph, plant_names>>

SpecClassify == InitClassify /\ [][Classify]_vars

\* Group g has a keyword that the question, as asked, contains.
GroupHit(g, question) ==
    \E k \in Range(KeywordGroups[g]) :
        \E i \in 0..(Len(question) - Len(k)) :
            SubSeq(question, i + 1, i + Len(k)) = k

\* C4: _identify_question_type returns exactly one of the 8 intents: the
\* intent of the first group, in the order symbol, medicinal, distribution,
\* folk, festival, literature, taxonomy, one of whose keywords the question
\* contains, and basic when no group has one.
C4_FirstKeywordGroupWins ==
    last.op = "classify" =>
        /\ last.q_type \in Intents
        /\ \A g \in 1..Len(KeywordGroups) :
               last.q_type = IntentOf[g]
                   <=> (/\ GroupHit(g, last.arg)
                        /\ \A h \in 1..(g - 1) : ~GroupHit(h, last.arg))
        /\ last.q_type = "basic"
               <=> \A g \in 1..Len(KeywordGroups) : ~GroupHit(g, last.arg)

\* A question with a folk keyword before a medicinal one is classified
\* medicinal, the earlier group.
C4_Witness ==
    /\ last.op = "classify"
    /\ last.arg = KW_folk[2] \o KW_medicinal[1]
    /\ last.q_type = "medicinal"

(***************************************************************************)
(* The dispatcher: one plant, every shape of node content, one question    *)
(* per intent.                                                             *)
(***************************************************************************)
DispatchNames == {N_lan}
DispatchNodes ==
    {FullNode,                                   \* flat fields and edges
     WithoutEdges(FullNode),                     \* flat fields, no edges
     WithFlat(FullNode, Str(<<>>)),              \* edges, flat fields ''
     WithFlat(FullNode, Null),                   \* edges, flat fields null
     EmptyNode,                                  \* no edges, flat fields ''
     NullNode,                                   \* no edges, flat fields null
     WithFlat(EmptyNode, Str(T_no_medicinal))}   \* no edges, "无药用记载"
DispatchQuestions ==
    Questions({N_lan, A_lanhua, N_meigui},
              {<<>>, KW_symbol[1], KW_medicinal[1], KW_distribution[1],
               KW_folk[1], KW_festival[1], KW_literature[1], KW_taxonomy[1]})

InitDispatch == InitOn(Graphs(DispatchNames, DispatchNodes))
NextDispatch == NextOn(DispatchQuestions, DispatchNames, {FullRow(N_lan)})
SpecDispatch == InitDispatch /\ [][NextDispatch]_vars

\* The edge collection an intent queries, if it queries one.
EdgeOf(q_type) ==
    CASE q_type = "symbol" -> {"symbols"}
      [] q_type = "medicinal" -> {"effects"}
      [] q_type = "festival" -> {"festivals"}
      [] q_type = "literature" -> {"literatures"}
      [] OTHER -> {}

\* The flat fields an intent reads.
FlatOf(q_type) ==
    CASE q_type = "symbol" -> {"cultural_symbol"}
      [] q_type = "medicinal" -> {"medicinal_value"}
      [] q_type = "distribution" -> {"distribution"}
      [] q_type = "folk" -> {"folk_use"}
      [] q_type = "festival" -> {"festival"}
      [] q_type = "literature" -> {"literature_source"}
      [] q_type = "taxonomy" -> {"latin_name", "family", "genus"}
      [] OTHER -> {"latin_name", "family", "genus", "distribution",
                   "cultural_symbol"}

\* The plant has no edge of the intent's type and no value in the intent's
\* flat fields; a plant without a record has neither.
BothEmpty(g, plant, q_type) ==
    plant \in DOMAIN g =>
        /\ \A e \in EdgeOf(q_type) : g[plant][e] = <<>>
        /\ \A f \in FlatOf(q_type) : g[plant][f].null \/ g[plant][f].s = <<>>

\* The intent's own "信息暂缺" message.
MissingMessage(q_type, plant) ==
    CASE q_type = "symbol" -> T_symbol_icon \o plant \o T_symbol_missing
      [] q_type = "medicinal" -> T_medicinal_icon \o plant \o T_medicinal_missing
      [] q_type = "distribution" ->
             T_distribution_icon \o plant \o T_distribution_missing
      [] q_type = "folk" -> T_folk_icon \o plant \o T_folk_missing
      [] q_type = "festival" -> T_festival_icon \o plant \o T_festival_missing
      [] q_type = "literature" ->
             T_literature_icon \o plant \o T_literature_missing
      [] q_type = "taxonomy" -> T_taxonomy_icon \o plant \o T_taxonomy_missing
      [] OTHER -> T_symbol_icon \o plant \o T_basic_missing

\* C5 as claimed: for each of the 8 intents the dispatched answer is not
\* empty and, when the intent's edges and flat fields are both empty, is the
\* intent's "信息暂缺" message.
C5_MissingMessageForEveryIntent ==
    WasDispatched =>
        /\ last.ret # <<>>
        /\ BothEmpty(graph, last.plant, last.q_type)
               => last.ret = MissingMessage(last.q_type, last.plant)

\* What the code does guarantee: the dispatched answer is never empty; for
\* symbol, medicinal, distribution, folk, festival and literature it is the
\* intent's "信息暂缺" message when the edges and the flat field are both
\* empty; for taxonomy and basic it is that message only when the plant has
\* no record.
MissingMessagePerIntent ==
    WasDispatched =>
        /\ last.ret # <<>>
        /\ (/\ last.q_type \notin {"taxonomy", "basic"}
            /\ BothEmpty(graph, last.plant, last.q_type))
               => last.ret = MissingMessage(last.q_type, last.plant)
        /\ (/\ last.q_type \in {"taxonomy", "basic"}
            /\ last.plant \notin DOMAIN graph)
               => last.ret = MissingMessage(last.q_type, last.plant)

\* A festival question about a plant whose record has neither festival edges
\* nor a festival field was answered with the festival "信息暂缺" message.
MissingMessageGiven ==
    /\ WasDispatched
    /\ last.q_type = "festival"
    /\ last.plant \in DOMAIN graph
    /\ BothEmpty(graph, last.plant, "festival")
    /\ last.ret = T_festival_icon \o last.plant \o T_festival_missing

RECURSIVE ParseDecimal(_)
ParseDecimal(digits) ==
    IF digits = <<>> THEN 0
    ELSE 10 * ParseDecimal(SubSeq(digits, 1, Len(digits) - 1))
             + (digits[Len(digits)] - 48)

\* The number of leading decimal digits of s.
RECURSIVE DigitsAt(_)
DigitsAt(s) ==
    IF s # <<>> /\ s[1] \in 48..57 THEN 1 + DigitsAt(Tail(s)) ELSE 0

\* s starts with prefix.
StartsWith(s, prefix) ==
    Len(prefix) <= Len(s) /\ SubSeq(s, 1, Len(prefix)) = prefix

\* s without its first n characters.
Drop(s, n) == SubSeq(s, n + 1, Len(s))

\* The answer has the form "📚 知识库中共有 <count> 种植物：\n<listing>".
IsListing(ret) ==
    /\ StartsWith(ret, T_list_count)
    /\ DigitsAt(Drop(ret, Len(T_list_count))) > 0
    /\ StartsWith(Drop(ret, Len(T_list_count)
                            + DigitsAt(Drop(ret, Len(T_list_count)))),
                  T_list_head)

ListedCount(ret) ==
    LET rest == Drop(ret, Len(T_list_count))
    IN  ParseDecimal(SubSeq(rest, 1, DigitsAt(rest)))

\* The entries of the listing, split at "、".
ListedNames(ret) ==
    LET rest == Drop(ret, Len(T_list_count))
    IN  Split(Drop(rest, DigitsAt(rest) + Len(T_list_head)), T_sep[1])

\* How often a name is an entry of the listing.
TimesListed(ret, name) ==
    Cardinality({i \in 1..Len(ListedNames(ret)) : ListedNames(ret)[i] = name})

\* A question with a "list all" keyword reached the general handler.
ListAllAsked ==
    /\ last.op = "answer"
    /\ last.step = "general"
    /\ AnyIn(KW_list_all, last.arg)

\* C7 as claimed: the answer to a "list all" question in which no plant
\* resolves reports the number of Plant nodes in the graph and lists every
\* plant of the graph exactly once.
C7_ListsTheGraph ==
    ListAllAsked =>
        /\ IsListing(last.ret)
        /\ ListedCount(last.ret) = Cardinality(DOMAIN graph)
        /\ \A n \in DOMAIN graph : TimesListed(last.ret, n) = 1

\* C7 as amended: the answer reports the number of plant names loaded at
\* startup and lists every loaded name exactly once; that is the graph's
\* entity set as long as the graph holds the plants it held at startup.
C7_ListsTheLoadedNames ==
    ListAllAsked =>
        /\ IsListing(last.ret)
        /\ ListedCount(last.ret) = Cardinality(Range(plant_names))
        /\ \A n \in Range(plant_names) : TimesListed(last.ret, n) = 1
        /\ DOMAIN graph = Range(plant_names)
               => /\ ListedCount(last.ret) = Cardinality(DOMAIN graph)
                  /\ \A n \in DOMAIN graph : TimesListed(last.ret, n) = 1

\* "所有植物" was asked of a system that loaded two plants.
C7_Witness ==
    /\ ListAllAsked
    /\ Len(plant_names) = 2
    /\ ListedCount(last.ret) = 2

\* The five festival keywords of the general handler and their curated texts.
FestivalKeywords == <<K_duanwu, K_chunjie, K_chongyang, K_zhongqiu, K_qingming>>
FestivalCurated ==
    <<T_duanwu_curated, T_chunjie_curated, T_chongyang_curated,
      T_zhongqiu_curated, T_qingming_curated>>

\* The plants with an edge to a Festival node whose name contains k.
LinkedToFestival(g, k) ==
    {p \in DOMAIN g : \E i \in 1..Len(g[p].festivals) : IsIn(k, g[p].festivals[i])}

\* C8: for each of the five festival keywords, when no plant resolves and the
\* question contains the keyword, the answer lists the plants the graph links
\* to a Festival node whose name contains the keyword, and is the festival's
\* curated text only if the graph has none.
C8_FestivalFromGraphFirst ==
    \A f \in 1..Len(FestivalKeywords) :
        (/\ last.op = "answer"
         /\ last.step = "general"
         /\ IsIn(FestivalKeywords[f], last.arg))
            => IF LinkedToFestival(graph, FestivalKeywords[f]) # {}
               THEN \A p \in LinkedToFestival(graph, FestivalKeywords[f]) :
                        IsIn(p, last.ret)
               ELSE last.ret = FestivalCurated[f]

\* The question, as asked, has none of the general handler's keywords.
NoGeneralKeyword(question) ==
    /\ \A i \in 1..Len(KW_list_all) : ~IsIn(KW_list_all[i], question)
    /\ \A f \in 1..Len(FestivalKeywords) : ~IsIn(FestivalKeywords[f], question)
    /\ ~IsIn(K_chuci, question)
    /\ ~IsIn(K_shijing, question)

\* C9: a question in which no plant resolves and that has no general keyword
\* is answered with the default prompt; the empty question is such a
\* question.
C9_DefaultPrompt ==
    /\ (/\ last.op = "answer"
        /\ last.step = "general"
        /\ NoGeneralKeyword(last.arg))
           => last.ret = T_default_prompt
    /\ (last.op = "answer" /\ last.arg = <<>>)
           => (last.step = "general" /\ last.ret = T_default_prompt)

\* "玫瑰象征" (玫瑰 is no plant of the store and no alias) got the default
\* prompt.
C9_Witness ==
    /\ last.op = "answer"
    /\ last.arg = N_meigui \o KW_symbol[1]
    /\ last.step = "general"
    /\ last.ret = T_default_prompt

\* The flat attributes of the detail record.
FlatAttributes ==
    {"latin", "family", "genus", "distribution", "folk_use", "ecological",
     "cultural_symbol"}
Placeholders ==
    {T_no_distribution, T_no_folk_use, T_no_ecological, T_no_cultural_symbol}

\* The node property a flat attribute of the detail record is read from.
PropertyOf(attribute) ==
    CASE attribute = "latin" -> "latin_name"
      [] attribute = "ecological" -> "ecological_meaning"
      [] OTHER -> attribute

\* C10: in the record get_plant_detail returns for a plant that exists, no
\* flat attribute is empty or null: each attribute that is empty in the graph
\* carries a "not available" placeholder.
C10_NoEmptyFlatAttribute ==
    (last.op = "detail" /\ last.detail.found) =>
        \A a \in FlatAttributes :
            /\ Truthy(last.detail[a])
            /\ ~Truthy(graph[last.arg][PropertyOf(a)])
                   => last.detail[a].s \in Placeholders

\* s ends with suffix.
EndsWith(s, suffix) ==
    Len(suffix) <= Len(s)
        /\ SubSeq(s, Len(s) - Len(suffix) + 1, Len(s)) = suffix

\* A question with a corpus keyword reached the general handler.
CorpusAsked ==
    /\ last.op = "answer"
    /\ last.step = "general"
    /\ (IsIn(K_chuci, last.arg) \/ IsIn(K_shijing, last.arg))

\* The number of names the corpus query returns on the graph: one per edge
\* from a Plant to a Literature node whose name has a corpus keyword.
CorpusRows ==
    Len(MatchRows(graph, "literatures", K_chuci, K_shijing,
                  SortedNames(DOMAIN graph)))

\* C11: when no plant resolves, the question has a corpus keyword (楚辞 or
\* 诗经) and the graph query returns k >= 1 names, the answer lists
\* min(k, 10) of them and ends with "……" if and only if k > 10.
C11_EllipsisOnlyWhenTruncated ==
    (CorpusAsked /\ CorpusRows >= 1) =>
        LET marked == EndsWith(last.ret, T_ellipsis)
            body == Drop(last.ret, Len(T_corpus_head))
            listing == IF marked
                       THEN SubSeq(body, 1, Len(body) - Len(T_ellipsis))
                       ELSE body
        IN  /\ StartsWith(last.ret, T_corpus_head)
            /\ Len(Split(listing, T_sep[1]))
                   = (IF CorpusRows < 10 THEN CorpusRows ELSE 10)
            /\ marked <=> CorpusRows > 10

\* The sub-fields of the basic answer: the node property and the text that
\* introduces it in the answer.
BasicSubFields ==
    {<<"latin_name", T_open>>, <<"family", T_family>>, <<"genus", T_genus>>,
     <<"distribution", T_basic_dist>>, <<"cultural_symbol", T_basic_symbol>>}

\* C12: the basic answer about a plant that has a record shows a sub-field
\* (latin name, family, genus, distribution, cultural symbol) only if the
\* field is non-empty in the record: an empty sub-field is left out, label
\* and all, and null is never printed as a value.
C12_EmptySubFieldsOmitted ==
    (/\ WasDispatched
     /\ last.q_type = "basic"
     /\ HasRecord(graph, last.plant))
        => /\ \A f \in BasicSubFields :
                  IsIn(f[2], last.ret) => Truthy(graph[last.plant][f[1]])
           /\ ~IsIn(T_None, last.ret)

\* The plant has a record with no edge of the intent's type and the sentinel
\* "无药用记载" in the intent's flat field.
OnlySentinel(g, plant, q_type) ==
    /\ q_type \in {"symbol", "medicinal", "festival", "literature"}
    /\ plant \in DOMAIN g
    /\ \A e \in EdgeOf(q_type) : g[plant][e] = <<>>
    /\ \A f \in FlatOf(q_type) : g[plant][f] = Str(T_no_medicinal)

C14_FallbackNeverResolves ==
    last.op = "answer" =>
        /\ last.step # "word"
        /\ \A words \in lcut(last.arg) :
               \A scan \in (IF AsksGraph(last.arg)
                            THEN ScanOrders(DOMAIN graph) ELSE {<<>>}) :
                   answer(graph, plant_names, last.arg, words, scan)
                       = answer_without_fallback(graph, plant_names,
                                                 last.arg, scan)

\* Step 3 ran: a question of several words, with no name and no alias in
\* it, was looked up word by word in a name list that is not empty, and went
\* on to the general handler.
C14_Witness ==
    /\ last.op = "answer"
    /\ last.step = "general"
    /\ plant_names # <<>>
    /\ \E words \in lcut(last.arg) : Len(words) >= 2

====
